---- MODULE Spec2Model ----
(***************************************************************************)
(* Guest-to-host import dispatch (call_import / resolve_export), the       *)
(* thread resume callback (resume_thread) and the quit path of             *)
(* handle_events of src/emulator/host/src/host.cpp.                        *)
(*                                                                         *)
(* Host threads are interleaved at lock boundaries: every step below is    *)
(* one statement, or one critical section's body, of the source.           *)
(***************************************************************************)
EXTENDS Integers, Sequences, FiniteSets, TLC

\* ---------------------------------------------------------------- bounds
NumThreads == 2     \* guest threads in kernel.threads
NumProcs == 2       \* host threads calling call_import / resume_thread

\* ------------------------------------------------------------- constants
LOG_IMPORT_CALLS == FALSE

Threads == 1..NumThreads            \* keys of kernel.threads
ThreadIds == 1..(NumThreads + 1)    \* SceUID values a caller may pass; the last is stale
Procs == 1..NumProcs
Nids == {1, 2}                      \* one NID nids.h lists, one it does not
Addresses == {0, 1, 2}              \* guest addresses the loader may report
NotFound == -1                      \* export_nids.end()
NoFn == 0                           \* ImportFn(), the empty function
NoOwner == 0                        \* an unlocked std::mutex
WaiterId(t) == NumProcs + t         \* the host thread running guest thread t
MainId == NumProcs + NumThreads + 1 \* the host thread running handle_events
LoaderId == NumProcs + NumThreads + 2  \* the host thread loading a guest module
NativeNids == {n \in Nids : n % 2 = 1}  \* the NIDs listed in nids/nids.h
EventTypes == {"SDL_QUIT", "SDLK_g", "other"}
NoEvent == "none"                   \* SDL_PollEvent returned 0

VARIABLES
    export_nids,      \* kernel.export_nids: nid -> Address, NotFound when absent
    to_do,            \* ThreadState::to_do of every registered thread
    cpu_pc,           \* the program counter of ThreadState::cpu
    kernel_mutex,     \* owner of kernel.mutex
    thread_mutex,     \* owner of ThreadState::mutex
    w_pc,             \* where guest thread t is: running/locked/parked/woken/exited
    aborting,         \* the process-wide abort signal raised by stop_all_threads
    proc_pc,          \* where host thread p is inside call_import / resume_thread
    proc_nid,         \* call_import's nid argument
    proc_tid,         \* the thread_id argument
    proc_export_pc,   \* call_import's local export_pc
    invoked,          \* native functions running on host thread p, with their arguments
    log,              \* trace events emitted so far
    crashed,          \* the process was aborted
    h_pc,             \* where the main thread is inside handle_events
    h_next,           \* stop_all_threads' iterator over kernel.threads
    display_queue_aborted, display_abort, display_notified, imgui_render

vars == <<export_nids, to_do, cpu_pc, kernel_mutex, thread_mutex, w_pc, aborting,
          proc_pc, proc_nid, proc_tid, proc_export_pc, invoked, log, crashed,
          h_pc, h_next, display_queue_aborted, display_abort,
          display_notified, imgui_render>>

kernel_vars == <<export_nids, to_do, cpu_pc, kernel_mutex, thread_mutex>>
guest_vars == <<w_pc, aborting>>
proc_vars == <<proc_pc, proc_nid, proc_tid, proc_export_pc, invoked>>
host_vars == <<h_pc, h_next, display_queue_aborted, display_abort,
               display_notified, imgui_render>>

Init ==
    /\ export_nids = [n \in Nids |-> NotFound]
    /\ to_do = [t \in Threads |-> "run"]
    /\ cpu_pc = [t \in Threads |-> 0]
    /\ kernel_mutex = NoOwner
    /\ thread_mutex = [t \in Threads |-> NoOwner]
    /\ w_pc = [t \in Threads |-> "running"]
    /\ aborting = FALSE
    /\ proc_pc = [p \in Procs |-> "idle"]
    /\ proc_nid = [p \in Procs |-> 0]
    /\ proc_tid = [p \in Procs |-> 0]
    /\ proc_export_pc = [p \in Procs |-> 0]
    /\ invoked = [p \in Procs |-> <<>>]
    /\ log = {}
    /\ crashed = FALSE
    /\ h_pc = "idle"
    /\ h_next = 0
    /\ display_queue_aborted = FALSE
    /\ display_abort = FALSE
    /\ display_notified = FALSE
    /\ imgui_render = TRUE

\* ------------------------------------------------------- pure functions

\* resolve_export without the test against end()
resolve_export_NoEndCheck(exports, nid) ==
    exports[nid]

\* resolve_export: the registered address, 0 if not found
resolve_export(exports, nid) ==
    IF exports[nid] = NotFound THEN 0 ELSE exports[nid]

\* resolve_import: the switch over nids.h, ImportFn() by default
resolve_import(nid) ==
    IF nid \in NativeNids THEN nid ELSE NoFn

\* something_to_do.notify_all(): every waiter parked on t's condition variable wakes
notify_all(w, t) ==
    [w EXCEPT ![t] = IF @ = "parked" THEN "woken" ELSE @]

\* the locals of a call are gone once it returns
Return(p) ==
    /\ proc_pc' = [proc_pc EXCEPT ![p] = "idle"]
    /\ proc_nid' = [proc_nid EXCEPT ![p] = 0]
    /\ proc_tid' = [proc_tid EXCEPT ![p] = 0]
    /\ proc_export_pc' = [proc_export_pc EXCEPT ![p] = 0]
    /\ invoked' = [invoked EXCEPT ![p] = <<>>]

\* lock_and_find handing out a record for an id the registry lacks
lock_and_find_return_Any(p, found_pc) ==
    /\ kernel_mutex = p
    /\ kernel_mutex' = NoOwner
    /\ proc_pc' = [proc_pc EXCEPT ![p] = found_pc]
    /\ crashed' = crashed

\* lock_and_find, second half: the registry lock is released and the record
\* returned; an id absent from the registry aborts the process
lock_and_find_return(p, found_pc) ==
    /\ kernel_mutex = p
    /\ kernel_mutex' = NoOwner
    /\ IF proc_tid[p] \in Threads
       THEN /\ proc_pc' = [proc_pc EXCEPT ![p] = found_pc]
            /\ crashed' = crashed
       ELSE /\ proc_pc' = [proc_pc EXCEPT ![p] = "aborted"]
            /\ crashed' = TRUE

\* ------------------------------------------------------------ call_import

\* CallImport asking the NID Registry first
CallImport_NativeFirst(p, nid, tid) ==
    /\ ~crashed
    /\ proc_pc[p] = "idle"
    /\ proc_nid' = [proc_nid EXCEPT ![p] = nid]
    /\ proc_tid' = [proc_tid EXCEPT ![p] = tid]
    /\ proc_export_pc' = [proc_export_pc EXCEPT ![p] = resolve_export(export_nids, nid)]
    /\ proc_pc' = [proc_pc EXCEPT ![p] =
                     IF resolve_import(nid) # NoFn \/ resolve_export(export_nids, nid) = 0
                     THEN "ci_hle" ELSE "ci_lle"]
    /\ UNCHANGED <<kernel_vars, guest_vars, host_vars, invoked, log, crashed>>

\* CallImport taking kernel.mutex for the lookup and keeping it
CallImport_HoldsLock(p, nid, tid) ==
    /\ ~crashed
    /\ proc_pc[p] = "idle"
    /\ kernel_mutex = NoOwner
    /\ kernel_mutex' = p
    /\ proc_nid' = [proc_nid EXCEPT ![p] = nid]
    /\ proc_tid' = [proc_tid EXCEPT ![p] = tid]
    /\ proc_export_pc' = [proc_export_pc EXCEPT ![p] = resolve_export(export_nids, nid)]
    /\ proc_pc' = [proc_pc EXCEPT ![p] =
                     IF resolve_export(export_nids, nid) = 0 THEN "ci_hle" ELSE "ci_lle"]
    /\ UNCHANGED <<export_nids, to_do, cpu_pc, thread_mutex, guest_vars, host_vars,
                   invoked, log, crashed>>

\* Address export_pc = resolve_export(host.kernel, nid);  if (!export_pc)
CallImport(p, nid, tid) ==
    /\ ~crashed
    /\ proc_pc[p] = "idle"
    /\ proc_nid' = [proc_nid EXCEPT ![p] = nid]
    /\ proc_tid' = [proc_tid EXCEPT ![p] = tid]
    /\ proc_export_pc' = [proc_export_pc EXCEPT ![p] = resolve_export(export_nids, nid)]
    /\ proc_pc' = [proc_pc EXCEPT ![p] =
                     IF resolve_export(export_nids, nid) = 0 THEN "ci_hle" ELSE "ci_lle"]
    /\ UNCHANGED <<kernel_vars, guest_vars, host_vars, invoked, log, crashed>>

\* ImportHLE calling the function twice
ImportHLE_Twice(p) ==
    /\ ~crashed
    /\ proc_pc[p] = "ci_hle"
    /\ log' = log
    /\ IF resolve_import(proc_nid[p]) # NoFn
       THEN /\ invoked' = [invoked EXCEPT ![p] =
                   Append(Append(@, [fn |-> resolve_import(proc_nid[p]), cpu |-> p,
                                     thread_id |-> proc_tid[p]]),
                          [fn |-> resolve_import(proc_nid[p]), cpu |-> p,
                           thread_id |-> proc_tid[p]])]
            /\ proc_pc' = [proc_pc EXCEPT ![p] = "ci_native"]
            /\ UNCHANGED <<proc_nid, proc_tid, proc_export_pc>>
       ELSE Return(p)
    /\ UNCHANGED <<kernel_vars, guest_vars, host_vars, crashed>>

\* ImportHLE without the if (fn) test: calling an empty ImportFn throws
ImportHLE_Unchecked(p) ==
    /\ ~crashed
    /\ proc_pc[p] = "ci_hle"
    /\ log' = log
    /\ IF resolve_import(proc_nid[p]) # NoFn
       THEN /\ invoked' = [invoked EXCEPT ![p] =
                   Append(@, [fn |-> resolve_import(proc_nid[p]), cpu |-> p,
                              thread_id |-> proc_tid[p]])]
            /\ proc_pc' = [proc_pc EXCEPT ![p] = "ci_native"]
            /\ crashed' = crashed
       ELSE /\ proc_pc' = [proc_pc EXCEPT ![p] = "aborted"]
            /\ crashed' = TRUE
            /\ invoked' = invoked
    /\ UNCHANGED <<kernel_vars, guest_vars, host_vars, proc_nid, proc_tid, proc_export_pc>>

\* HLE: the optional trace, resolve_import, and fn(host, cpu, thread_id) if (fn)
ImportHLE(p) ==
    /\ ~crashed
    /\ proc_pc[p] = "ci_hle"
    /\ log' = IF LOG_IMPORT_CALLS
              THEN log \cup {[kind |-> "called", nid |-> proc_nid[p], thread_id |-> proc_tid[p]]}
              ELSE log
    /\ IF resolve_import(proc_nid[p]) # NoFn
       THEN /\ invoked' = [invoked EXCEPT ![p] =
                   Append(@, [fn |-> resolve_import(proc_nid[p]), cpu |-> p,
                              thread_id |-> proc_tid[p]])]
            /\ proc_pc' = [proc_pc EXCEPT ![p] = "ci_native"]
            /\ UNCHANGED <<proc_nid, proc_tid, proc_export_pc>>
       ELSE Return(p)
    /\ UNCHANGED <<kernel_vars, guest_vars, host_vars, crashed>>

\* the native function has run to completion; call_import returns
NativeReturn(p) ==
    /\ ~crashed
    /\ proc_pc[p] = "ci_native"
    /\ Return(p)
    /\ UNCHANGED <<kernel_vars, guest_vars, host_vars, log, crashed>>

\* LLE: the optional trace, then lock_and_find takes kernel.mutex
ImportLLEFind(p) ==
    /\ ~crashed
    /\ proc_pc[p] = "ci_lle"
    /\ kernel_mutex = NoOwner
    /\ kernel_mutex' = p
    /\ log' = IF LOG_IMPORT_CALLS
              THEN log \cup {[kind |-> "exported", nid |-> proc_nid[p], thread_id |-> proc_tid[p]]}
              ELSE log
    /\ proc_pc' = [proc_pc EXCEPT ![p] = "ci_find"]
    /\ UNCHANGED <<export_nids, to_do, cpu_pc, thread_mutex, guest_vars, host_vars,
                   proc_nid, proc_tid, proc_export_pc, invoked, crashed>>

\* ImportLLEFound going on with whatever the lookup returned
ImportLLEFound_Unchecked(p) ==
    /\ ~crashed
    /\ proc_pc[p] = "ci_find"
    /\ kernel_mutex = p
    /\ kernel_mutex' = NoOwner
    /\ proc_pc' = [proc_pc EXCEPT ![p] = "ci_lock"]
    /\ UNCHANGED <<export_nids, to_do, cpu_pc, thread_mutex, guest_vars, host_vars,
                   proc_nid, proc_tid, proc_export_pc, invoked, log, crashed>>

ImportLLEFound(p) ==
    /\ ~crashed
    /\ proc_pc[p] = "ci_find"
    /\ lock_and_find_return(p, "ci_lock")
    /\ UNCHANGED <<export_nids, to_do, cpu_pc, thread_mutex, guest_vars, host_vars,
                   proc_nid, proc_tid, proc_export_pc, invoked, log>>

\* ImportLLELock going on to write_pc without the record's mutex
ImportLLELock_NoLock(p) ==
    /\ ~crashed
    /\ proc_pc[p] = "ci_lock"
    /\ proc_pc' = [proc_pc EXCEPT ![p] = "ci_write"]
    /\ UNCHANGED <<export_nids, to_do, cpu_pc, kernel_mutex, thread_mutex, guest_vars,
                   host_vars, proc_nid, proc_tid, proc_export_pc, invoked, log, crashed>>

\* const std::lock_guard<std::mutex> lock(thread->mutex);
ImportLLELock(p) ==
    /\ ~crashed
    /\ proc_pc[p] = "ci_lock"
    /\ thread_mutex[proc_tid[p]] = NoOwner
    /\ thread_mutex' = [thread_mutex EXCEPT ![proc_tid[p]] = p]
    /\ proc_pc' = [proc_pc EXCEPT ![p] = "ci_write"]
    /\ UNCHANGED <<export_nids, to_do, cpu_pc, kernel_mutex, guest_vars, host_vars,
                   proc_nid, proc_tid, proc_export_pc, invoked, log, crashed>>

\* ImportLLEWrite writing the nid where the address belongs
ImportLLEWrite_Nid(p) ==
    /\ ~crashed
    /\ proc_pc[p] = "ci_write"
    /\ cpu_pc' = [cpu_pc EXCEPT ![proc_tid[p]] = proc_nid[p]]
    /\ thread_mutex' = [thread_mutex EXCEPT ![proc_tid[p]] = NoOwner]
    /\ Return(p)
    /\ UNCHANGED <<export_nids, to_do, kernel_mutex, guest_vars, host_vars, log, crashed>>

\* write_pc(*thread->cpu, export_pc); the lock_guard unlocks on return
ImportLLEWrite(p) ==
    /\ ~crashed
    /\ proc_pc[p] = "ci_write"
    /\ cpu_pc' = [cpu_pc EXCEPT ![proc_tid[p]] = proc_export_pc[p]]
    /\ thread_mutex' = [thread_mutex EXCEPT ![proc_tid[p]] = NoOwner]
    /\ Return(p)
    /\ UNCHANGED <<export_nids, to_do, kernel_mutex, guest_vars, host_vars, log, crashed>>

\* the module loader reports (nid, address); an id is never re-registered
RegisterExport(nid, addr) ==
    /\ ~crashed
    /\ kernel_mutex = NoOwner
    /\ export_nids[nid] = NotFound
    /\ export_nids' = [export_nids EXCEPT ![nid] = addr]
    /\ UNCHANGED <<to_do, cpu_pc, kernel_mutex, thread_mutex, guest_vars, proc_vars,
                   host_vars, log, crashed>>

\* the module loader takes the lock that guards the table: an insertion is
\* in progress until LoaderInsert
LoaderBegin ==
    /\ ~crashed
    /\ kernel_mutex = NoOwner
    /\ kernel_mutex' = LoaderId
    /\ UNCHANGED <<export_nids, to_do, cpu_pc, thread_mutex, guest_vars, proc_vars,
                   host_vars, log, crashed>>

\* the insertion completes and the lock is released
LoaderInsert(nid, addr) ==
    /\ ~crashed
    /\ kernel_mutex = LoaderId
    /\ export_nids[nid] = NotFound
    /\ export_nids' = [export_nids EXCEPT ![nid] = addr]
    /\ kernel_mutex' = NoOwner
    /\ UNCHANGED <<to_do, cpu_pc, thread_mutex, guest_vars, proc_vars, host_vars, log,
                   crashed>>

\* kernel.export_nids.find(nid) while another thread is inside the insertion:
\* a data race on the map, the lookup may see any address or none
CallImportRacing(p, nid, tid, seen) ==
    /\ ~crashed
    /\ proc_pc[p] = "idle"
    /\ kernel_mutex = LoaderId
    /\ proc_nid' = [proc_nid EXCEPT ![p] = nid]
    /\ proc_tid' = [proc_tid EXCEPT ![p] = tid]
    /\ proc_export_pc' = [proc_export_pc EXCEPT ![p] = seen]
    /\ proc_pc' = [proc_pc EXCEPT ![p] = IF seen = 0 THEN "ci_hle" ELSE "ci_lle"]
    /\ UNCHANGED <<kernel_vars, guest_vars, host_vars, invoked, log, crashed>>

\* ---------------------------------------------------------- resume_thread

\* the ResumeAudioThread callback is called; lock_and_find takes kernel.mutex
ResumeThread(p, tid) ==
    /\ ~crashed
    /\ proc_pc[p] = "idle"
    /\ kernel_mutex = NoOwner
    /\ kernel_mutex' = p
    /\ proc_tid' = [proc_tid EXCEPT ![p] = tid]
    /\ proc_pc' = [proc_pc EXCEPT ![p] = "rt_find"]
    /\ UNCHANGED <<export_nids, to_do, cpu_pc, thread_mutex, guest_vars, host_vars,
                   proc_nid, proc_export_pc, invoked, log, crashed>>

\* ResumeFound keeping the registry lock after the lookup
ResumeFound_HoldRegistry(p) ==
    /\ ~crashed
    /\ proc_pc[p] = "rt_find"
    /\ kernel_mutex = p
    /\ proc_pc' = [proc_pc EXCEPT ![p] = IF proc_tid[p] \in Threads THEN "rt_lock" ELSE "aborted"]
    /\ crashed' = (proc_tid[p] \notin Threads)
    /\ UNCHANGED <<export_nids, to_do, cpu_pc, kernel_mutex, thread_mutex, guest_vars,
                   host_vars, proc_nid, proc_tid, proc_export_pc, invoked, log>>

ResumeFound(p) ==
    /\ ~crashed
    /\ proc_pc[p] = "rt_find"
    /\ lock_and_find_return(p, "rt_lock")
    /\ UNCHANGED <<export_nids, to_do, cpu_pc, thread_mutex, guest_vars, host_vars,
                   proc_nid, proc_tid, proc_export_pc, invoked, log>>

\* ResumeLock going on to the test without the record's mutex
ResumeLock_NoLock(p) ==
    /\ ~crashed
    /\ proc_pc[p] = "rt_lock"
    /\ proc_pc' = [proc_pc EXCEPT ![p] = "rt_test"]
    /\ UNCHANGED <<export_nids, to_do, cpu_pc, kernel_mutex, thread_mutex, guest_vars,
                   host_vars, proc_nid, proc_tid, proc_export_pc, invoked, log, crashed>>

\* const std::lock_guard<std::mutex> lock(thread->mutex);
ResumeLock(p) ==
    /\ ~crashed
    /\ proc_pc[p] = "rt_lock"
    /\ thread_mutex[proc_tid[p]] = NoOwner
    /\ thread_mutex' = [thread_mutex EXCEPT ![proc_tid[p]] = p]
    /\ proc_pc' = [proc_pc EXCEPT ![p] = "rt_test"]
    /\ UNCHANGED <<export_nids, to_do, cpu_pc, kernel_mutex, guest_vars, host_vars,
                   proc_nid, proc_tid, proc_export_pc, invoked, log, crashed>>

\* ResumeTest without the test
ResumeTest_Always(p) ==
    /\ ~crashed
    /\ proc_pc[p] = "rt_test"
    /\ to_do' = [to_do EXCEPT ![proc_tid[p]] = "run"]
    /\ proc_pc' = [proc_pc EXCEPT ![p] = "rt_notify"]
    /\ UNCHANGED <<export_nids, cpu_pc, kernel_mutex, thread_mutex, guest_vars, host_vars,
                   proc_nid, proc_tid, proc_export_pc, invoked, log, crashed>>

\* ResumeTest with notify_all inside the if: nothing to notify, it returns
ResumeTest_NotifyInside(p) ==
    /\ ~crashed
    /\ proc_pc[p] = "rt_test"
    /\ IF to_do[proc_tid[p]] = "wait"
       THEN /\ to_do' = [to_do EXCEPT ![proc_tid[p]] = "run"]
            /\ proc_pc' = [proc_pc EXCEPT ![p] = "rt_notify"]
            /\ UNCHANGED <<thread_mutex, proc_nid, proc_tid, proc_export_pc, invoked>>
       ELSE /\ to_do' = to_do
            /\ thread_mutex' = [thread_mutex EXCEPT ![proc_tid[p]] = NoOwner]
            /\ Return(p)
    /\ UNCHANGED <<export_nids, cpu_pc, kernel_mutex, guest_vars, host_vars, log, crashed>>

\* if (thread->to_do == ThreadToDo::wait) thread->to_do = ThreadToDo::run;
ResumeTest(p) ==
    /\ ~crashed
    /\ proc_pc[p] = "rt_test"
    /\ to_do' = IF to_do[proc_tid[p]] = "wait"
                THEN [to_do EXCEPT ![proc_tid[p]] = "run"]
                ELSE to_do
    /\ proc_pc' = [proc_pc EXCEPT ![p] = "rt_notify"]
    /\ UNCHANGED <<export_nids, cpu_pc, kernel_mutex, thread_mutex, guest_vars, host_vars,
                   proc_nid, proc_tid, proc_export_pc, invoked, log, crashed>>

\* ResumeTest in two steps, the read of to_do and the write:
\* if (thread->to_do == ThreadToDo::wait)
ResumeTestOnly(p) ==
    /\ ~crashed
    /\ proc_pc[p] = "rt_test"
    /\ proc_pc' = [proc_pc EXCEPT ![p] =
                     IF to_do[proc_tid[p]] = "wait" THEN "rt_write" ELSE "rt_notify"]
    /\ UNCHANGED <<export_nids, to_do, cpu_pc, kernel_mutex, thread_mutex, guest_vars,
                   host_vars, proc_nid, proc_tid, proc_export_pc, invoked, log, crashed>>

\* ResumeWrite unlocking and returning right after the write
ResumeWrite_Returns(p) ==
    /\ ~crashed
    /\ proc_pc[p] = "rt_write"
    /\ to_do' = [to_do EXCEPT ![proc_tid[p]] = "run"]
    /\ thread_mutex' = [thread_mutex EXCEPT ![proc_tid[p]] = NoOwner]
    /\ Return(p)
    /\ UNCHANGED <<export_nids, cpu_pc, kernel_mutex, guest_vars, host_vars, log, crashed>>

\* thread->to_do = ThreadToDo::run;
ResumeWrite(p) ==
    /\ ~crashed
    /\ proc_pc[p] = "rt_write"
    /\ to_do' = [to_do EXCEPT ![proc_tid[p]] = "run"]
    /\ proc_pc' = [proc_pc EXCEPT ![p] = "rt_notify"]
    /\ UNCHANGED <<export_nids, cpu_pc, kernel_mutex, thread_mutex, guest_vars, host_vars,
                   proc_nid, proc_tid, proc_export_pc, invoked, log, crashed>>

\* ResumeNotify without the notification
ResumeNotify_Missing(p) ==
    /\ ~crashed
    /\ proc_pc[p] = "rt_notify"
    /\ thread_mutex' = [thread_mutex EXCEPT ![proc_tid[p]] = NoOwner]
    /\ Return(p)
    /\ UNCHANGED <<export_nids, to_do, cpu_pc, kernel_mutex, guest_vars, host_vars, log,
                   crashed>>

\* thread->something_to_do.notify_all(); the lock_guard unlocks on return
ResumeNotify(p) ==
    /\ ~crashed
    /\ proc_pc[p] = "rt_notify"
    /\ w_pc' = notify_all(w_pc, proc_tid[p])
    /\ thread_mutex' = [thread_mutex EXCEPT ![proc_tid[p]] = NoOwner]
    /\ Return(p)
    /\ UNCHANGED <<export_nids, to_do, cpu_pc, kernel_mutex, aborting, host_vars, log,
                   crashed>>

\* ----------------------------------------------------------- guest thread

\* run -> wait: the thread blocks itself, under its own lock
Block(t) ==
    /\ ~crashed
    /\ w_pc[t] = "running"
    /\ to_do[t] = "run"
    /\ thread_mutex[t] = NoOwner
    /\ thread_mutex' = [thread_mutex EXCEPT ![t] = WaiterId(t)]
    /\ to_do' = [to_do EXCEPT ![t] = "wait"]
    /\ w_pc' = [w_pc EXCEPT ![t] = "locked"]
    /\ UNCHANGED <<export_nids, cpu_pc, kernel_mutex, aborting, proc_vars, host_vars, log,
                   crashed>>

\* the predicate is checked under the lock: proceed when to_do is run, exit
\* when the abort signal is up, else something_to_do.wait(lock)
Recheck(t) ==
    /\ ~crashed
    /\ w_pc[t] = "locked"
    /\ thread_mutex' = [thread_mutex EXCEPT ![t] = NoOwner]
    /\ IF to_do[t] = "run"
       THEN /\ w_pc' = [w_pc EXCEPT ![t] = "running"]
            /\ to_do' = to_do
       ELSE IF aborting
       THEN /\ w_pc' = [w_pc EXCEPT ![t] = "exited"]
            /\ to_do' = [to_do EXCEPT ![t] = "stop"]
       ELSE /\ w_pc' = [w_pc EXCEPT ![t] = "parked"]
            /\ to_do' = to_do
    /\ UNCHANGED <<export_nids, cpu_pc, kernel_mutex, aborting, proc_vars, host_vars, log,
                   crashed>>

\* a woken waiter takes its lock again before it looks at to_do
Reacquire(t) ==
    /\ ~crashed
    /\ w_pc[t] = "woken"
    /\ thread_mutex[t] = NoOwner
    /\ thread_mutex' = [thread_mutex EXCEPT ![t] = WaiterId(t)]
    /\ w_pc' = [w_pc EXCEPT ![t] = "locked"]
    /\ UNCHANGED <<export_nids, to_do, cpu_pc, kernel_mutex, aborting, proc_vars,
                   host_vars, log, crashed>>

\* the wait primitive may return without a notification
SpuriousWakeup(t) ==
    /\ ~crashed
    /\ w_pc[t] = "parked"
    /\ w_pc' = [w_pc EXCEPT ![t] = "woken"]
    /\ UNCHANGED <<kernel_vars, aborting, proc_vars, host_vars, log, crashed>>

\* run -> stop: the thread terminates
ExitThread(t) ==
    /\ ~crashed
    /\ w_pc[t] = "running"
    /\ thread_mutex[t] = NoOwner
    /\ to_do' = [to_do EXCEPT ![t] = "stop"]
    /\ w_pc' = [w_pc EXCEPT ![t] = "exited"]
    /\ UNCHANGED <<export_nids, cpu_pc, kernel_mutex, thread_mutex, aborting, proc_vars,
                   host_vars, log, crashed>>

\* ---------------------------------------------------------- handle_events

\* the main loop calls handle_events
HandleEvents ==
    /\ ~crashed
    /\ h_pc = "idle"
    /\ h_pc' = "poll"
    /\ UNCHANGED <<kernel_vars, guest_vars, proc_vars, log, crashed, h_next,
                   display_queue_aborted, display_abort, display_notified, imgui_render>>

\* PollEvent leaving out stop_all_threads on SDL_QUIT
PollEvent_NoStop(event) ==
    /\ ~crashed
    /\ h_pc = "poll"
    /\ h_pc' = IF event = NoEvent THEN "idle"
               ELSE IF event = "SDL_QUIT" THEN "dq_abort" ELSE "poll"
    /\ imgui_render' = IF event = "SDLK_g" THEN ~imgui_render ELSE imgui_render
    /\ UNCHANGED <<kernel_vars, guest_vars, proc_vars, log, crashed, h_next,
                   display_queue_aborted, display_abort, display_notified>>

\* while (SDL_PollEvent(&event)): one iteration on the event SDL hands out,
\* or return true when no event is pending
PollEvent(event) ==
    /\ ~crashed
    /\ h_pc = "poll"
    /\ h_pc' = IF event = NoEvent THEN "idle"
               ELSE IF event = "SDL_QUIT" THEN "stop_all" ELSE "poll"
    /\ imgui_render' = IF event = "SDLK_g" THEN ~imgui_render ELSE imgui_render
    /\ UNCHANGED <<kernel_vars, guest_vars, proc_vars, log, crashed, h_next,
                   display_queue_aborted, display_abort, display_notified>>

\* stop_all_threads(host.kernel): the abort signal goes up under kernel.mutex
StopAllThreads ==
    /\ ~crashed
    /\ h_pc = "stop_all"
    /\ kernel_mutex = NoOwner
    /\ kernel_mutex' = MainId
    /\ aborting' = TRUE
    /\ h_next' = 1
    /\ h_pc' = "stopping"
    /\ UNCHANGED <<export_nids, to_do, cpu_pc, thread_mutex, w_pc, proc_vars, log, crashed,
                   display_queue_aborted, display_abort, display_notified,
                   imgui_render>>

\* stop_all_threads walks the whole registry and wakes every parked thread
StopNextThread ==
    /\ ~crashed
    /\ h_pc = "stopping"
    /\ IF h_next \in Threads
       THEN /\ thread_mutex[h_next] = NoOwner
            /\ w_pc' = notify_all(w_pc, h_next)
            /\ h_next' = h_next + 1
            /\ UNCHANGED <<kernel_mutex, h_pc>>
       ELSE /\ kernel_mutex' = NoOwner
            /\ h_next' = 0
            /\ h_pc' = "dq_abort"
            /\ UNCHANGED w_pc
    /\ UNCHANGED <<export_nids, to_do, cpu_pc, thread_mutex, aborting, proc_vars, log,
                   crashed, display_queue_aborted, display_abort,
                   display_notified, imgui_render>>

\* host.gxm.display_queue.abort();
\* DisplayQueueAbort notifying the display before the abort flag is set
DisplayQueueAbort_Notifies ==
    /\ ~crashed
    /\ h_pc = "dq_abort"
    /\ display_queue_aborted' = TRUE
    /\ display_notified' = TRUE
    /\ h_pc' = "set_abort"
    /\ UNCHANGED <<kernel_vars, guest_vars, proc_vars, log, crashed, h_next,
                   display_abort, imgui_render>>

DisplayQueueAbort ==
    /\ ~crashed
    /\ h_pc = "dq_abort"
    /\ display_queue_aborted' = TRUE
    /\ h_pc' = "set_abort"
    /\ UNCHANGED <<kernel_vars, guest_vars, proc_vars, log, crashed, h_next,
                   display_abort, display_notified, imgui_render>>

\* host.display.abort.exchange(true);
DisplayAbort ==
    /\ ~crashed
    /\ h_pc = "set_abort"
    /\ display_abort' = TRUE
    /\ h_pc' = "notify"
    /\ UNCHANGED <<kernel_vars, guest_vars, proc_vars, log, crashed, h_next,
                   display_queue_aborted, display_notified, imgui_render>>

\* host.display.condvar.notify_all(); return false;
DisplayNotify ==
    /\ ~crashed
    /\ h_pc = "notify"
    /\ display_notified' = TRUE
    /\ h_pc' = "returned_false"
    /\ UNCHANGED <<kernel_vars, guest_vars, proc_vars, log, crashed, h_next,
                   display_queue_aborted, display_abort, imgui_render>>

\* --------------------------------------------------------- specifications

DispatchStep ==
    \/ \E p \in Procs, nid \in Nids, tid \in ThreadIds : CallImport(p, nid, tid)
    \/ \E p \in Procs : ImportHLE(p)
    \/ \E p \in Procs : NativeReturn(p)
    \/ \E p \in Procs : ImportLLEFind(p)
    \/ \E p \in Procs : ImportLLEFound(p)
    \/ \E p \in Procs : ImportLLELock(p)
    \/ \E p \in Procs : ImportLLEWrite(p)
    \/ \E nid \in Nids, addr \in Addresses : RegisterExport(nid, addr)

ResumeStep ==
    \/ \E p \in Procs, tid \in ThreadIds : ResumeThread(p, tid)
    \/ \E p \in Procs : ResumeFound(p)
    \/ \E p \in Procs : ResumeLock(p)
    \/ \E p \in Procs : ResumeTest(p)
    \/ \E p \in Procs : ResumeNotify(p)

GuestStep ==
    \/ \E t \in Threads : Block(t)
    \/ \E t \in Threads : Recheck(t)
    \/ \E t \in Threads : Reacquire(t)
    \/ \E t \in Threads : SpuriousWakeup(t)
    \/ \E t \in Threads : ExitThread(t)

HostStep ==
    \/ HandleEvents
    \/ \E event \in EventTypes \cup {NoEvent} : PollEvent(event)
    \/ StopAllThreads
    \/ StopNextThread
    \/ DisplayQueueAbort
    \/ DisplayAbort
    \/ DisplayNotify

Next == DispatchStep \/ ResumeStep \/ GuestStep \/ HostStep

Spec == Init /\ [][Next]_vars

\* the dispatcher and the module loader
DispatchSpec == Init /\ [][DispatchStep]_vars

\* the dispatcher next to a module loader whose insertions take time
ImportStep ==
    \/ \E p \in Procs, nid \in Nids, tid \in ThreadIds : CallImport(p, nid, tid)
    \/ \E p \in Procs : ImportHLE(p)
    \/ \E p \in Procs : NativeReturn(p)
    \/ \E p \in Procs : ImportLLEFind(p)
    \/ \E p \in Procs : ImportLLEFound(p)
    \/ \E p \in Procs : ImportLLELock(p)
    \/ \E p \in Procs : ImportLLEWrite(p)

LoaderStep ==
    \/ LoaderBegin
    \/ \E nid \in Nids, addr \in Addresses : LoaderInsert(nid, addr)
    \/ \E p \in Procs, nid \in Nids, tid \in ThreadIds, seen \in Addresses :
           CallImportRacing(p, nid, tid, seen)

LoaderSpec == Init /\ [][ImportStep \/ LoaderStep]_vars

\* the state once a module is loaded: the id nids.h does not list is exported
LoadedInit ==
    /\ export_nids = [n \in Nids |-> IF n \in NativeNids THEN NotFound ELSE 1]
    /\ to_do = [t \in Threads |-> "run"]
    /\ cpu_pc = [t \in Threads |-> 0]
    /\ kernel_mutex = NoOwner
    /\ thread_mutex = [t \in Threads |-> NoOwner]
    /\ w_pc = [t \in Threads |-> "running"]
    /\ aborting = FALSE
    /\ proc_pc = [p \in Procs |-> "idle"]
    /\ proc_nid = [p \in Procs |-> 0]
    /\ proc_tid = [p \in Procs |-> 0]
    /\ proc_export_pc = [p \in Procs |-> 0]
    /\ invoked = [p \in Procs |-> <<>>]
    /\ log = {}
    /\ crashed = FALSE
    /\ h_pc = "idle"
    /\ h_next = 0
    /\ display_queue_aborted = FALSE
    /\ display_abort = FALSE
    /\ display_notified = FALSE
    /\ imgui_render = TRUE

\* a host thread inside call_import or resume_thread takes its next step
ProcContinue(p) ==
    \/ ImportHLE(p)
    \/ NativeReturn(p)
    \/ ImportLLEFind(p)
    \/ ImportLLEFound(p)
    \/ ImportLLELock(p)
    \/ ImportLLEWrite(p)
    \/ ResumeFound(p)
    \/ ResumeLock(p)
    \/ ResumeTest(p)
    \/ ResumeNotify(p)

\* call_import and resume_thread called from any host threads, module loaded
LockSpec == LoadedInit /\ [][ImportStep \/ ResumeStep]_vars

\* a host thread inside a call keeps running and gets the mutex it waits for
LockLiveSpec ==
    /\ LoadedInit
    /\ [][ImportStep \/ ResumeStep]_vars
    /\ \A p \in Procs : SF_vars(ProcContinue(p))

\* resume_thread with the read and the write of to_do as two steps
SplitResumeStep ==
    \/ \E p \in Procs, tid \in ThreadIds : ResumeThread(p, tid)
    \/ \E p \in Procs : ResumeFound(p)
    \/ \E p \in Procs : ResumeLock(p)
    \/ \E p \in Procs : ResumeTestOnly(p)
    \/ \E p \in Procs : ResumeWrite(p)
    \/ \E p \in Procs : ResumeNotify(p)

\* the resume callback, statement by statement, and the guest threads
SplitSpec == Init /\ [][SplitResumeStep \/ GuestStep]_vars

\* the event loop next to the guest threads
EventSpec == Init /\ [][HostStep \/ GuestStep]_vars

\* the resume callback, the guest threads and the event loop
SyncStep == ResumeStep \/ GuestStep \/ HostStep
SyncSpec == Init /\ [][SyncStep]_vars

\* A host thread inside a call keeps running, and one waiting for a mutex gets
\* it in the end; nothing obliges a producer to call, a guest thread to block
\* or exit, or an event to arrive.
Fairness ==
    /\ \A p \in Procs :
           /\ WF_vars(ResumeFound(p))
           /\ SF_vars(ResumeLock(p))
           /\ WF_vars(ResumeTest(p))
           /\ WF_vars(ResumeNotify(p))
    /\ \A t \in Threads : WF_vars(Recheck(t)) /\ SF_vars(Reacquire(t))
    /\ SF_vars(StopAllThreads)
    /\ SF_vars(StopNextThread)
    /\ WF_vars(DisplayQueueAbort)
    /\ WF_vars(DisplayAbort)
    /\ WF_vars(DisplayNotify)

LiveSpec == Init /\ [][SyncStep]_vars /\ Fairness

\* ------------------------------------------------- properties: dispatch

HlePcs == {"ci_hle", "ci_native"}
LlePcs == {"ci_lle", "ci_find", "ci_lock", "ci_write"}

\* host thread p takes a step of its call
Steps(p) == proc_pc'[p] # proc_pc[p]

\* host thread p enters call_import with this step
Calls(p) == proc_pc[p] = "idle" /\ proc_pc'[p] \in {"ci_hle", "ci_lle"}

\* what the LLE path does for a thread of the registry: the registry lock
\* and the record's lock aside, the one write is the record's PC, set to the
\* address resolve_export returned, at the step that returns
LleFrame(p) ==
    (Steps(p) /\ proc_pc[p] \in LlePcs /\ proc_tid[p] \in Threads) =>
        /\ export_nids' = export_nids
        /\ to_do' = to_do
        /\ invoked' = invoked
        /\ ~crashed'
        /\ \A t \in Threads \ {proc_tid[p]} :
               cpu_pc'[t] = cpu_pc[t] /\ thread_mutex'[t] = thread_mutex[t]
        /\ IF proc_pc[p] = "ci_write"
           THEN /\ cpu_pc'[proc_tid[p]] = proc_export_pc[p]
                /\ proc_pc'[p] = "idle"
           ELSE cpu_pc' = cpu_pc

\* C1 as stated: an id that only the Export Table holds, with any registered
\* address, is routed to the LLE path with that address, and the LLE path
\* writes exactly that address to the calling thread's PC and nothing else.
C1_AnyAddress ==
    [][\A p \in Procs :
        /\ (Calls(p) /\ export_nids[proc_nid'[p]] # NotFound
                     /\ proc_nid'[p] \notin NativeNids) =>
               (proc_pc'[p] = "ci_lle" /\ proc_export_pc'[p] = export_nids[proc_nid'[p]])
        /\ LleFrame(p)]_vars

\* C1 amended: the same for an id that only the Export Table holds with a
\* non-zero registered address.
C1_NonZeroAddress ==
    [][\A p \in Procs :
        /\ (Calls(p) /\ export_nids[proc_nid'[p]] \notin {NotFound, 0}
                     /\ proc_nid'[p] \notin NativeNids) =>
               (proc_pc'[p] = "ci_lle" /\ proc_export_pc'[p] = export_nids[proc_nid'[p]])
        /\ LleFrame(p)]_vars

\* an export-only id was dispatched for a registered thread: its PC holds the
\* registered, non-zero address
C1_Witness ==
    \E t \in Threads :
        /\ cpu_pc[t] # 0
        /\ \E n \in Nids \ NativeNids : export_nids[n] = cpu_pc[t]
        /\ \A n \in NativeNids : export_nids[n] = NotFound

\* C2: an id that only the NID Registry holds is routed to the HLE path; there
\* its native function is invoked exactly once, with the caller's CPU state and
\* thread id, the invocation is over when call_import returns, and the
\* dispatcher changes neither the Export Table nor any PC.
C2_NativeOnce ==
    [][\A p \in Procs :
        /\ (Calls(p) /\ export_nids[proc_nid'[p]] = NotFound
                     /\ proc_nid'[p] \in NativeNids) =>
               (proc_pc'[p] = "ci_hle" /\ invoked'[p] = <<>>)
        /\ (Steps(p) /\ proc_pc[p] \in HlePcs /\ proc_nid[p] \in NativeNids) =>
               /\ export_nids' = export_nids
               /\ cpu_pc' = cpu_pc
               /\ IF proc_pc[p] = "ci_hle"
                  THEN /\ proc_pc'[p] = "ci_native"
                       /\ invoked'[p] = <<[fn |-> proc_nid[p], cpu |-> p,
                                           thread_id |-> proc_tid[p]]>>
                  ELSE /\ Len(invoked[p]) = 1
                       /\ proc_pc'[p] = "idle"]_vars

\* the native function of an id absent from the Export Table is running
C2_Witness ==
    \E p \in Procs :
        /\ proc_pc[p] = "ci_native"
        /\ export_nids[proc_nid[p]] = NotFound
        /\ invoked[p] = <<[fn |-> proc_nid[p], cpu |-> p, thread_id |-> proc_tid[p]]>>

\* C3: an id absent from both tables is routed to the HLE path and call_import
\* then returns normally, having changed nothing but, possibly, the log.
C3_UnresolvedNoEffect ==
    [][\A p \in Procs :
        /\ (Calls(p) /\ export_nids[proc_nid'[p]] = NotFound
                     /\ proc_nid'[p] \notin NativeNids) =>
               proc_pc'[p] = "ci_hle"
        /\ (Steps(p) /\ proc_pc[p] = "ci_hle" /\ proc_nid[p] \notin NativeNids) =>
               /\ proc_pc'[p] = "idle"
               /\ ~crashed'
               /\ invoked' = invoked
               /\ UNCHANGED <<kernel_vars, guest_vars, host_vars>>]_vars

\* a call with an id absent from both tables is past resolve_export
C3_Witness ==
    \E p \in Procs :
        /\ proc_pc[p] = "ci_hle"
        /\ proc_nid[p] \notin NativeNids
        /\ export_nids[proc_nid[p]] = NotFound
        /\ proc_export_pc[p] = 0

\* C4 as stated: the step that ends an unresolved call leaves an event with
\* the id and the calling thread id in the log.
C4_UnresolvedLogged ==
    [][\A p \in Procs :
        (Steps(p) /\ proc_pc[p] = "ci_hle" /\ resolve_import(proc_nid[p]) = NoFn) =>
            \E e \in log' : e.nid = proc_nid[p] /\ e.thread_id = proc_tid[p]]_vars

\* C9 as stated: no native function runs for a thread id the registry lacks.
C9_NoNativeForStaleId ==
    \A p \in Procs : proc_pc[p] = "ci_native" => proc_tid[p] \in Threads

\* C9 amended: with a thread id the registry lacks, call_import aborts on the
\* LLE path, at the lookup, before any lock on a record or PC write; on the
\* HLE path the registry is not consulted and the call goes on as for a
\* registered thread.
C9_AbortOnLleOnly ==
    [][\A p \in Procs :
        /\ proc_pc'[p] \in {"ci_lock", "ci_write"} => proc_tid'[p] \in Threads
        /\ (Steps(p) /\ proc_tid[p] \in ThreadIds \ Threads) =>
               /\ cpu_pc' = cpu_pc
               /\ proc_pc[p] = "ci_find" => (crashed' /\ proc_pc'[p] = "aborted")
               /\ proc_pc[p] = "ci_hle" =>
                      (~crashed' /\ proc_pc'[p] =
                          IF proc_nid[p] \in NativeNids THEN "ci_native" ELSE "idle")]_vars

\* the LLE path was taken with a thread id the registry lacks
C9_Witness ==
    /\ crashed
    /\ \E p \in Procs :
           /\ proc_pc[p] = "aborted"
           /\ proc_tid[p] \notin Threads
           /\ proc_export_pc[p] # 0

\* --------------------------------------------------- properties: resume

ResumePcs == {"rt_find", "rt_lock", "rt_test", "rt_notify"}

\* host thread p is inside resume_thread for thread t
Resuming(p, t) == proc_pc[p] \in ResumePcs /\ proc_tid[p] = t

\* C5: the only change a step of resume_thread makes to any to_do is wait -> run
\* on the thread it was called for; run and stop stay what they are.
C5_ResumeOnlyWaitToRun ==
    [][\A p \in Procs :
        (Steps(p) /\ (proc_pc[p] \in ResumePcs \/ proc_pc'[p] \in ResumePcs)) =>
            \A t \in Threads :
                \/ to_do'[t] = to_do[t]
                \/ to_do[t] = "wait" /\ to_do'[t] = "run" /\ proc_tid[p] = t]_vars

\* a resume has passed its test on a stopped thread while a second resume of
\* the same thread is under way
C5_Witness ==
    \E p, q \in Procs :
        /\ p # q
        /\ proc_pc[p] = "rt_notify"
        /\ to_do[proc_tid[p]] = "stop"
        /\ Resuming(q, proc_tid[p])

\* C6 as stated: a resume that finds to_do other than wait returns without
\* reaching notify_all.
C6_NoNotifyUnlessWait ==
    [][\A p \in Procs :
        (Steps(p) /\ proc_pc[p] = "rt_test" /\ to_do[proc_tid[p]] # "wait") =>
            proc_pc'[p] # "rt_notify"]_vars

\* C6 amended: a resume that finds to_do other than wait leaves every to_do as
\* it is and still goes on to notify_all, which wakes whoever is parked on that
\* thread's condition variable.
C6_NotifyUnconditional ==
    [][\A p \in Procs :
        /\ (Steps(p) /\ proc_pc[p] = "rt_test" /\ to_do[proc_tid[p]] # "wait") =>
               (to_do' = to_do /\ proc_pc'[p] = "rt_notify")
        /\ (Steps(p) /\ proc_pc[p] = "rt_notify") =>
               (w_pc'[proc_tid[p]] # "parked" /\ to_do' = to_do)]_vars

\* a resume of a thread that is running is about to notify
C6_Witness ==
    \E p \in Procs :
        /\ proc_pc[p] = "rt_notify"
        /\ w_pc[proc_tid[p]] = "running"
        /\ to_do[proc_tid[p]] = "run"

\* C7: a guest thread that is checking or waiting on its condition variable
\* with to_do = wait, while a resume of it is under way, gets to see to_do =
\* run and goes on running, unless the process aborts or shuts down first.
C7_NoLostWakeup ==
    \A t \in Threads :
        (/\ w_pc[t] \in {"locked", "parked", "woken"}
         /\ to_do[t] = "wait"
         /\ \E p \in Procs : Resuming(p, t))
        ~> (w_pc[t] = "running" \/ crashed \/ aborting)

\* the waiter is parked and the resume has just set to_do to run
C7_Witness ==
    \E p \in Procs :
        /\ proc_pc[p] = "rt_notify"
        /\ w_pc[proc_tid[p]] = "parked"
        /\ to_do[proc_tid[p]] = "run"
        /\ ~aborting

\* C8: resume with a thread id the registry lacks aborts at the lookup: it
\* never gets to a record's lock, to_do or condition variable, and it does not
\* return.
C8_ResumeStaleIdAborts ==
    [][\A p \in Procs :
        /\ proc_pc'[p] \in {"rt_lock", "rt_test", "rt_notify"} => proc_tid'[p] \in Threads
        /\ (Steps(p) /\ proc_pc[p] = "rt_find" /\ proc_tid[p] \notin Threads) =>
               /\ crashed'
               /\ proc_pc'[p] = "aborted"
               /\ UNCHANGED <<to_do, w_pc, thread_mutex>>]_vars

\* a resume with a stale thread id has aborted the process
C8_Witness ==
    /\ crashed
    /\ \E p \in Procs : proc_pc[p] = "aborted" /\ proc_tid[p] \notin Threads

\* the quit event was taken off the queue
QuitSeen == h_pc \notin {"idle", "poll"}

\* C10: a thread that is parked when the quit event has been taken is woken
\* and leaves the wait: it goes on running or exits.
C10_QuitWakesParked ==
    \A t \in Threads :
        (QuitSeen /\ w_pc[t] = "parked") ~> (w_pc[t] \in {"running", "exited"} \/ crashed)

\* stop_all_threads has woken a thread whose to_do is still wait
C10_Witness ==
    \E t \in Threads :
        /\ h_pc = "stopping"
        /\ h_next > t
        /\ w_pc[t] = "woken"
        /\ to_do[t] = "wait"

\* ------------------------------------------- properties: the export table

\* C11 as stated: every lookup of the Export Table is made under the lock
\* that guards it, so no lookup step is taken while an insertion is in
\* progress.
C11_LookupNeverOverlapsInsert ==
    [][\A p \in Procs : Calls(p) => kernel_mutex # LoaderId]_vars

\* C12: an id that both tables hold, with a non-zero registered address, takes
\* the LLE path with that address: the PC of the calling thread's record is
\* set to it and no native function is invoked on that path; a native function
\* runs only in a call whose Export Table lookup gave 0.
C12_ExportFirst ==
    [][\A p \in Procs :
        /\ (Calls(p) /\ export_nids[proc_nid'[p]] \notin {NotFound, 0}
                     /\ proc_nid'[p] \in NativeNids) =>
               /\ proc_pc'[p] = "ci_lle"
               /\ proc_export_pc'[p] = export_nids[proc_nid'[p]]
               /\ invoked'[p] = <<>>
        /\ (Steps(p) /\ proc_pc[p] \in LlePcs) =>
               (invoked' = invoked /\ proc_pc'[p] # "ci_native")
        /\ (Steps(p) /\ proc_pc[p] = "ci_write") =>
               cpu_pc'[proc_tid[p]] = proc_export_pc[p]
        /\ proc_pc'[p] = "ci_native" => proc_export_pc'[p] = 0]_vars

\* a PC holds the address registered for an id that nids.h lists too
C12_Witness ==
    \E t \in Threads :
        /\ cpu_pc[t] # 0
        /\ \E n \in NativeNids : export_nids[n] = cpu_pc[t]
        /\ \A n \in Nids \ NativeNids : export_nids[n] = NotFound

\* C17: while call_import is on the HLE path, the native function running or
\* about to, the calling host thread holds neither kernel.mutex nor the mutex
\* of any thread record.
C17_NoLockHeldInNative ==
    \A p \in Procs :
        proc_pc[p] \in HlePcs =>
            /\ kernel_mutex # p
            /\ \A t \in Threads : thread_mutex[t] # p

\* a native function runs while another host thread holds the lock of the
\* record of the thread it was called for
C17_Witness ==
    \E p, q \in Procs :
        /\ proc_pc[p] = "ci_native"
        /\ proc_tid[p] \in Threads
        /\ proc_pc[q] = "ci_write"
        /\ proc_tid[q] = proc_tid[p]
        /\ thread_mutex[proc_tid[p]] = q

\* C18: call_import takes the LLE path exactly when the Export Table holds a
\* non-zero address for the id; an id registered at address 0 gets export_pc =
\* 0 like an id the table lacks, goes the HLE way (native function if nids.h
\* lists the id, else nothing) and no PC is written there.
C18_ZeroAddressIsNotFound ==
    [][\A p \in Procs :
        /\ Calls(p) =>
               IF export_nids[proc_nid'[p]] \in {NotFound, 0}
               THEN proc_pc'[p] = "ci_hle" /\ proc_export_pc'[p] = 0
               ELSE /\ proc_pc'[p] = "ci_lle"
                    /\ proc_export_pc'[p] = export_nids[proc_nid'[p]]
        /\ (Steps(p) /\ proc_pc[p] \in HlePcs) => cpu_pc' = cpu_pc
        /\ (Steps(p) /\ proc_pc[p] = "ci_hle") =>
               proc_pc'[p] = IF proc_nid[p] \in NativeNids THEN "ci_native" ELSE "idle"]_vars

\* a call with an id registered at address 0 is on the HLE path
C18_Witness ==
    \E p \in Procs :
        /\ proc_pc[p] \in HlePcs
        /\ export_nids[proc_nid[p]] = 0
        /\ proc_export_pc[p] = 0


\* the positions of a call at which it is between locking and unlocking the
\* record of the thread it was called for
RecordPcs == {"ci_write", "rt_test", "rt_notify"}

\* C15: a thread's PC is written by call_import alone, at write_pc, by a host
\* thread that holds the mutex of that thread's record; at that moment no
\* other call_import and no resume_thread is between locking and unlocking the
\* same record; the step writes the resolved address, calls nothing and
\* returns.
C15_PcWriteUnderRecordLock ==
    [][/\ \A t \in Threads : cpu_pc'[t] # cpu_pc[t] =>
               \E p \in Procs : Steps(p) /\ proc_pc[p] = "ci_write" /\ proc_tid[p] = t
       /\ \A p \in Procs : (Steps(p) /\ proc_pc[p] = "ci_write") =>
               /\ proc_tid[p] \in Threads
               /\ thread_mutex[proc_tid[p]] = p
               /\ \A q \in Procs \ {p} :
                      ~(proc_pc[q] \in RecordPcs /\ proc_tid[q] = proc_tid[p])
               /\ cpu_pc' = [cpu_pc EXCEPT ![proc_tid[p]] = proc_export_pc[p]]
               /\ invoked' = invoked
               /\ invoked[p] = <<>>
               /\ proc_pc'[p] = "idle"]_vars

\* a PC was written while a resume and a second call_import of the same
\* thread wait for its record
C15_Witness ==
    \E t \in Threads : \E p, q \in Procs :
        /\ cpu_pc[t] # 0
        /\ proc_pc[p] = "ci_write" /\ proc_tid[p] = t
        /\ proc_pc[q] = "rt_lock" /\ proc_tid[q] = t

\* host thread p holds the registry lock and the mutex of some record
HoldsBoth(p) == kernel_mutex = p /\ \E t \in Threads : thread_mutex[t] = p

\* C16: no host thread ever holds the registry lock and a record's mutex at
\* once, and every call of call_import or resume_thread that has started
\* returns (or the process has aborted on an unknown thread id), whatever the
\* other host threads call meanwhile.
C16_DeadlockFree ==
    /\ [](\A p \in Procs : ~HoldsBoth(p))
    /\ \A p \in Procs : (proc_pc[p] # "idle") ~> (proc_pc[p] = "idle" \/ crashed)

\* one host thread holds the registry lock for the lookup of a thread whose
\* record another host thread holds locked
C16_Witness ==
    \E p, q \in Procs : \E t \in Threads :
        /\ proc_pc[p] \in {"ci_find", "rt_find"} /\ kernel_mutex = p
        /\ proc_pc[q] \in RecordPcs /\ thread_mutex[t] = q
        /\ proc_tid[p] = t

\* the positions of resume_thread between locking and unlocking the record,
\* the read and the write of to_do taken apart
SplitRecordPcs == {"rt_test", "rt_write", "rt_notify"}

\* C13: a step of resume_thread changes a record's to_do only while the host
\* thread holds that record's mutex; from the read of to_do to the unlock no
\* other resume of the same thread is between its lock and unlock, and the
\* value read (wait) is still there when run is written.
C13_TestAndWriteUnderRecordLock ==
    [][\A p \in Procs :
        /\ (Steps(p) /\ to_do' # to_do) =>
               /\ proc_pc[p] = "rt_write"
               /\ to_do' = [to_do EXCEPT ![proc_tid[p]] = "run"]
        /\ proc_pc[p] \in SplitRecordPcs =>
               /\ thread_mutex[proc_tid[p]] = p
               /\ \A q \in Procs \ {p} :
                      ~(proc_pc[q] \in SplitRecordPcs /\ proc_tid[q] = proc_tid[p])
        /\ proc_pc[p] = "rt_write" => to_do[proc_tid[p]] = "wait"]_vars

\* a resume has written run and not yet unlocked, while a second resume of
\* the same thread waits for the record
C13_Witness ==
    \E t \in Threads : \E p, q \in Procs :
        /\ proc_pc[p] = "rt_notify" /\ proc_tid[p] = t
        /\ to_do[t] = "run" /\ w_pc[t] = "parked"
        /\ proc_pc[q] = "rt_lock" /\ proc_tid[q] = t

\* C14: the step of resume_thread that writes wait -> run keeps the record's
\* mutex and goes on to notify_all; until that notification no step changes
\* the record's to_do, and the mutex leaves the resuming host thread only in
\* the step that wakes every waiter of that thread's condition variable.
C14_NotifyFollowsWrite ==
    [][\A p \in Procs :
        /\ (Steps(p) /\ proc_pc[p] = "rt_write") =>
               /\ to_do[proc_tid[p]] = "wait" /\ to_do'[proc_tid[p]] = "run"
               /\ proc_pc'[p] = "rt_notify"
               /\ thread_mutex'[proc_tid[p]] = p
        /\ (to_do' # to_do /\ Steps(p) /\ proc_pc[p] \in SplitRecordPcs) =>
               proc_pc[p] = "rt_write"
        /\ proc_pc[p] = "rt_notify" =>
               /\ to_do'[proc_tid[p]] = to_do[proc_tid[p]]
               /\ thread_mutex[proc_tid[p]] = p
               /\ thread_mutex'[proc_tid[p]] # p =>
                      /\ Steps(p)
                      /\ w_pc' = notify_all(w_pc, proc_tid[p])
                      /\ w_pc'[proc_tid[p]] # "parked"]_vars

\* a parked thread was set to run and woken by a resume that has returned
C14_Witness ==
    \E t \in Threads :
        /\ w_pc[t] = "woken" /\ to_do[t] = "run"
        /\ thread_mutex[t] = NoOwner
        /\ \A p \in Procs : proc_pc[p] = "idle"

\* how far the quit path of handle_events has got: 0 before the quit event,
\* 1 once the threads were told to stop, 2 display queue aborted, 3 abort
\* flag set, 4 display notified
QuitProgress ==
    IF display_notified THEN 4
    ELSE IF display_abort THEN 3
    ELSE IF display_queue_aborted THEN 2
    ELSE IF aborting /\ h_pc \notin {"stop_all", "stopping"} THEN 1
    ELSE 0

\* C19: handle_events leaves its loop for the quit path on the quit event and
\* on nothing else; on that path the threads are told to stop, then the
\* display queue is aborted, then the abort flag is set, then the display
\* condition variable is notified, one after the other; it returns false
\* with all four done and from nowhere else; once the quit event is taken no
\* further event is polled or handled.
C19_QuitPathInOrder ==
    [][/\ (h_pc = "poll" /\ h_pc' # "poll") =>
              (h_pc' = "stop_all" <=> PollEvent("SDL_QUIT"))
       /\ h_pc' = "stop_all" => (h_pc = "stop_all" \/ PollEvent("SDL_QUIT"))
       /\ ~QuitSeen => (~aborting /\ QuitProgress = 0)
       /\ h_pc \in {"stop_all", "stopping"} => QuitProgress = 0
       /\ h_pc = "dq_abort" => QuitProgress = 1
       /\ h_pc = "set_abort" => QuitProgress = 2
       /\ h_pc = "notify" => QuitProgress = 3
       /\ h_pc = "returned_false" => (QuitProgress = 4 /\ display_abort /\ aborting)
       /\ display_notified => display_abort
       /\ display_abort => display_queue_aborted
       /\ display_queue_aborted => aborting
       /\ QuitProgress' \in {QuitProgress, QuitProgress + 1}
       /\ QuitSeen => /\ QuitSeen'
                      /\ imgui_render' = imgui_render
                      /\ ~(\E event \in EventTypes \cup {NoEvent} : PollEvent(event))
       /\ h_pc = "returned_false" => h_pc' = "returned_false"]_vars

\* handle_events has returned false after an earlier key event
C19_Witness ==
    /\ h_pc = "returned_false"
    /\ display_abort /\ display_notified /\ display_queue_aborted
    /\ ~imgui_render
====
